---- MODULE Spec2Model ----
(***************************************************************************)
(* Displacement Volume Analyzer (src/streamlit_app.py): the session state  *)
(* of the Streamlit script, the two JSON files it persists to, and the     *)
(* handlers that change them.                                              *)
(*                                                                         *)
(* One step of a session specification is one user interaction: the script *)
(* run the interaction triggers, the handler it reaches, and the rerun the  *)
(* handler asks for (st.rerun), up to the end of the last run.              *)
(*                                                                         *)
(* Widgets: a widget returns, in a run, the value the session holds for it; *)
(* the disabled "Project Number" text input returns its value argument, a   *)
(* checkbox returns its value argument unless the user toggled it in this   *)
(* run.  A click is seen by the run it triggers only; st.rerun() starts a   *)
(* run without it.  The assignments a handler makes to st.session_state     *)
(* take effect as written.                                                 *)
(*                                                                         *)
(* The free-text fields of a project (name, designer, description,          *)
(* contact, date) are all copied the same way; project_name stands for      *)
(* them.  Numbers are integers: the weight and the lengths of the form in   *)
(* the unit chosen, volumes in mm3.                                         *)
(*                                                                         *)
(* Specifications:                                                         *)
(*   Spec         the project session, every write succeeding              *)
(*   SpecDelete   selecting and deleting in a collection of up to          *)
(*                MaxDelete records                                        *)
(*   SpecStore    the first run and the saves of the projects store, with  *)
(*                I/O faults                                               *)
(*   SpecSamples  the first run and the saves of the samples store, with   *)
(*                I/O faults                                               *)
(***************************************************************************)
EXTENDS Integers, Sequences, FiniteSets, TLC

VARIABLES
    \* ---- st.session_state -------------------------------------------------
    projects,                  \* st.session_state.projects (list of dicts)
    current_project_id,        \* None or the number of the bound project
    project_counter,
    current_project_number,    \* set from the "Project Number" display
    project_name,              \* form field (widget key)
    primary_weight,
    primary_unit,
    primary_volume_mm3,        \* Absent when the key is not in the session
    box_length,
    box_width,
    box_height,
    dimension_unit,
    box_volume_mm3,            \* Absent when the key is not in the session
    selected_project_indices,  \* list of 0-based positions
    loaded_projects_overview,
    project_to_load,           \* NoProject or the project to load
    samples,                   \* st.session_state.samples
    \* ---- the file system --------------------------------------------------
    projects_file,             \* dva_projects.json
    projects_backup,           \* dva_projects.json.backup
    data_file,                 \* dva_data.json
    data_backup,               \* dva_data.json.backup
    \* ---- the run --------------------------------------------------------
    pc,                        \* position of the start-up script run
    raised,                    \* an exception left a store operation
    last                       \* the last interaction and what it started from

vars == << projects, current_project_id, project_counter, current_project_number,
           project_name, primary_weight, primary_unit, primary_volume_mm3,
           box_length, box_width, box_height, dimension_unit, box_volume_mm3,
           selected_project_indices, loaded_projects_overview, project_to_load,
           samples, projects_file, projects_backup, data_file, data_backup,
           pc, raised, last >>

formVars == << project_name, primary_weight, primary_unit, primary_volume_mm3,
               box_length, box_width, box_height, dimension_unit, box_volume_mm3 >>

sampleVars == << samples, data_file, data_backup >>

(***************************************************************************)
(* Bounds of the model.                                                    *)
(***************************************************************************)
MaxProjects == 2      \* Save Project appends while the collection is shorter
MaxInit == 1          \* records in the projects file when the session starts
MaxNewClicks == 1     \* New Project clicks counted by project_counter
MaxDelete == 5        \* records in the collection of the deletion sessions
MaxSamples == 5       \* Add Sample appends while the collection is shorter
MaxSaved == 1         \* records in the collection of the overview sessions
MaxSelected == 1      \* projects selected at once in the overview sessions
MaxOverview == 1      \* projects in the overview
MaxWeight == 5        \* the largest mantissa of a converted weight
MaxVolume == 7        \* the largest volume is MaxVolume steps
VolumeStep == 500     \* mm3 between two volumes that are compared
MaxShortRows == 1     \* rows of a CSV file in the sessions on both stores
MaxRows == 2          \* rows of an imported CSV file
MaxCut == 1           \* chunks a write that fails part-way can leave

(***************************************************************************)
(* Values.                                                                 *)
(***************************************************************************)
None == -1            \* Python's None, for current_project_id
Absent == -1          \* a key that is not in st.session_state

FirstProjectNumber == 1000

Names == {"New Project", "Bracket"}

DefaultWeight == 100
DefaultLength == 10

\* calculate_volume's table, the mm3 column of the units with an integer factor
WeightToMm3(unit) ==
    CASE unit = "grams" -> 1000
      [] unit = "kilograms" -> 1000000

\* dimension_to_mm, the units with an integer factor
dimension_to_mm(unit) ==
    CASE unit = "mm" -> 1
      [] unit = "cm" -> 10

\* calculate_volume(weight, unit)['mm3']
calculate_volume_mm3(weight, unit) == weight * WeightToMm3(unit)

\* box volume in mm3, lines 604-608
BoxVolumeMm3(l, w, h, unit) ==
    (l * dimension_to_mm(unit)) * (w * dimension_to_mm(unit)) * (h * dimension_to_mm(unit))

(***************************************************************************)
(* Sequences.                                                              *)
(***************************************************************************)
Range(s) == {s[i] : i \in 1..Len(s)}

Max(S) == CHOOSE m \in S : \A x \in S : x <= m

\* list.pop(idx), idx 0-based
Pop(s, idx) == [i \in 1..(Len(s) - 1) |-> IF i <= idx THEN s[i] ELSE s[i + 1]]

\* list.remove(x): the first occurrence
RemoveFirst(s, x) ==
    LET i == CHOOSE k \in 1..Len(s) : s[k] = x /\ \A j \in 1..(k - 1) : s[j] # x
    IN  [k \in 1..(Len(s) - 1) |-> IF k < i THEN s[k] ELSE s[k + 1]]

\* the positions in the order they were selected, not sorted
SelectionOrder(s) == s

\* sorted(indices, reverse=True)
RECURSIVE SortedReverse(_)
SortedReverse(s) ==
    IF s = <<>> THEN <<>>
    ELSE LET m == Max(Range(s))
         IN  <<m>> \o SortedReverse(RemoveFirst(s, m))

(***************************************************************************)
(* Files and JSON.  A file is absent or holds a text; a text is the         *)
(* sequence of chunks json.dump writes: "[]" for the empty list, else "[",  *)
(* one chunk per record, "]".  Junk is a chunk no JSON text contains.       *)
(***************************************************************************)
NoRecord == [none |-> TRUE]

EmptyArr == [t |-> "[]", v |-> NoRecord]
Open == [t |-> "[", v |-> NoRecord]
Close == [t |-> "]", v |-> NoRecord]
Junk == [t |-> "junk", v |-> NoRecord]
Item(r) == [t |-> "item", v |-> r]

NoFile == [exists |-> FALSE, content |-> <<>>]
File(text) == [exists |-> TRUE, content |-> text]

\* json.dump(records, f, indent=2): the chunks written, in order
JsonDump(records) ==
    IF records = <<>> THEN <<EmptyArr>>
    ELSE <<Open>> \o [i \in 1..Len(records) |-> Item(records[i])] \o <<Close>>

\* json.loads accepts the text
JsonValid(text) ==
    \/ text = <<EmptyArr>>
    \/ /\ Len(text) >= 3
       /\ text[1].t = "["
       /\ text[Len(text)].t = "]"
       /\ \A i \in 2..(Len(text) - 1) : text[i].t = "item"

\* a parse that loses the last element
JsonLoadsShort(text) ==
    IF text = <<EmptyArr>> THEN <<>>
    ELSE [i \in 1..(Len(text) - 3) |-> text[i + 1].v]

\* json.loads(text), for a text it accepts
JsonLoads(text) ==
    IF text = <<EmptyArr>> THEN <<>>
    ELSE [i \in 1..(Len(text) - 2) |-> text[i + 1].v]

\* what a write that fails part-way leaves of the text: the first k chunks
Prefix(text, k) == SubSeq(text, 1, k)

\* open(name, 'w'); json.dump(records, f, indent=2) -- outcome "ok", or the
\* open fails ("open"), or the write stops after k chunks ("cut")
WriteJson(file, records, outcome, k) ==
    CASE outcome = "ok" -> File(JsonDump(records))
      [] outcome = "open" -> file
      [] outcome = "cut" -> File(Prefix(JsonDump(records), k))

\* the outcomes of one write of records
WriteOutcomes(records) ==
    {<<"ok", 0>>, <<"open", 0>>} \cup {<<"cut", k>> : k \in 0..(Len(JsonDump(records)) - 1)}

(***************************************************************************)
(* Project records.                                                        *)
(***************************************************************************)
\* project_data of save_current_project: the form as the session holds it
project_data ==
    [ project_number |-> current_project_number,
      project_name |-> project_name,
      weight |-> primary_weight,
      weight_unit |-> primary_unit,
      primary_volume_mm3 |-> IF primary_volume_mm3 = Absent THEN 0 ELSE primary_volume_mm3,
      box_length |-> box_length,
      box_width |-> box_width,
      box_height |-> box_height,
      dimension_unit |-> dimension_unit,
      box_volume_mm3 |-> IF box_volume_mm3 = Absent THEN 0 ELSE box_volume_mm3 ]

\* a record as the defaults of the form produce it
DefaultProject(n, name) ==
    [ project_number |-> n,
      project_name |-> name,
      weight |-> DefaultWeight,
      weight_unit |-> "grams",
      primary_volume_mm3 |-> calculate_volume_mm3(DefaultWeight, "grams"),
      box_length |-> DefaultLength,
      box_width |-> DefaultLength,
      box_height |-> DefaultLength,
      dimension_unit |-> "cm",
      box_volume_mm3 |-> BoxVolumeMm3(DefaultLength, DefaultLength, DefaultLength, "cm") ]

NoProject == [project_number |-> None]

Numbers(recs) == {recs[i].project_number : i \in 1..Len(recs)}

\* project_counter when the session starts, lines 223-229
InitialCounter(recs) ==
    IF recs # <<>> THEN Max(Numbers(recs)) + 1 ELSE FirstProjectNumber

\* next_project_number of the specification, section 4.2
next_project_number(existing) ==
    IF existing = <<>> THEN FirstProjectNumber ELSE Max(Numbers(existing)) + 1

\* position (1-based) of the first record with the number, 0 when none
FirstIndexOf(recs, n) ==
    IF \E i \in 1..Len(recs) : recs[i].project_number = n
    THEN CHOOSE i \in 1..Len(recs) :
            /\ recs[i].project_number = n
            /\ \A j \in 1..(i - 1) : recs[j].project_number # n
    ELSE 0

\* the update loop of save_current_project, lines 320-323
UpdateExisting(recs, id, data) ==
    LET i == FirstIndexOf(recs, id)
    IN  IF i = 0 THEN recs ELSE [recs EXCEPT ![i] = data]

\* the delete loop, lines 914-917: pop the positions from the end first
RECURSIVE PopAll(_, _)
PopAll(recs, idxs) ==
    IF idxs = <<>> THEN recs
    ELSE PopAll(Pop(recs, Head(idxs)), Tail(idxs))

DeleteSelected(recs, selected) == PopAll(recs, SortedReverse(selected))

(***************************************************************************)
(* The script run.  Every run that reaches the Analyzer tab recomputes the  *)
(* two volumes from the inputs on screen when the inputs are truthy, and    *)
(* sets current_project_number from the "Project Number" display.           *)
(***************************************************************************)
\* lines 491-495, the Calculate button not clicked
RenderPrimary(weight, unit, old) ==
    IF weight # 0 THEN calculate_volume_mm3(weight, unit) ELSE old

\* lines 594-620, the Calculate button not clicked
RenderBox(l, w, h, unit, old) ==
    IF l # 0 /\ w # 0 /\ h # 0 THEN BoxVolumeMm3(l, w, h, unit) ELSE old

\* lines 365-389: a pending project_to_load binds the form to its number,
\* is cleared, and the run starts again
IdAfterPending ==
    IF project_to_load # NoProject THEN project_to_load.project_number
    ELSE current_project_id

NumberAfterPending ==
    IF project_to_load # NoProject THEN project_to_load.project_number
    ELSE current_project_number

\* the rest of a run in which no button is clicked: the form keeps its inputs
RenderUnchangedForm ==
    /\ primary_volume_mm3' = RenderPrimary(primary_weight, primary_unit, primary_volume_mm3)
    /\ box_volume_mm3' = RenderBox(box_length, box_width, box_height, dimension_unit,
                                   box_volume_mm3)
    /\ UNCHANGED << project_name, primary_weight, primary_unit,
                    box_length, box_width, box_height, dimension_unit >>

\* the warning shown when the write failed
NeverWarns(outcome) == FALSE

\* except Exception as e: st.error(...), lines 104-105 and 252-253: the
\* failure of the write is shown as a message and goes no further
st_error(outcome) == outcome # "ok"

\* what Save Project or Delete Selected started from, and how its write ended
Last(op, outcome) ==
    [ op |-> op,
      before |-> projects,
      selected |-> selected_project_indices,
      id |-> current_project_id,
      data |-> project_data,
      file |-> projects_file,
      backup |-> projects_backup,
      outcome |-> outcome,
      warned |-> st_error(outcome),
      writes |-> 1,
      samples |-> <<>>,
      rows |-> <<>>,
      verdicts |-> <<>>,
      imported |-> 0,
      skipped |-> 0,
      results |-> NoRecord,
      views |-> NoRecord ]

\* any other interaction
NoLast ==
    [ op |-> "other",
      before |-> <<>>,
      selected |-> <<>>,
      id |-> None,
      data |-> NoProject,
      file |-> NoFile,
      backup |-> NoFile,
      outcome |-> "ok",
      warned |-> FALSE,
      writes |-> 0,
      samples |-> <<>>,
      rows |-> <<>>,
      verdicts |-> <<>>,
      imported |-> 0,
      skipped |-> 0,
      results |-> NoRecord,
      views |-> NoRecord ]

(***************************************************************************)
(* The handlers of the project session.                                    *)
(***************************************************************************)
\* "New Project": create_new_project, then the rerun
create_new_project ==
    /\ pc = "ready"
    /\ project_to_load = NoProject
    /\ project_counter < FirstProjectNumber + MaxInit + MaxNewClicks
    /\ current_project_id' = None
    /\ project_counter' = project_counter + 1
    /\ project_name' = "New Project"
    /\ primary_weight' = DefaultWeight
    /\ primary_unit' = "grams"
    /\ primary_volume_mm3' = RenderPrimary(DefaultWeight, "grams", Absent)
    /\ box_length' = DefaultLength
    /\ box_width' = DefaultLength
    /\ box_height' = DefaultLength
    /\ dimension_unit' = "cm"
    /\ box_volume_mm3' = RenderBox(DefaultLength, DefaultLength, DefaultLength, "cm", Absent)
    /\ last' = NoLast
    /\ UNCHANGED << projects, current_project_number, selected_project_indices,
                    loaded_projects_overview, project_to_load, projects_file,
                    projects_backup, sampleVars, pc, raised >>

\* the collection after save_current_project, lines 317-327
SavedProjects(recs, id, data) ==
    IF id # None THEN UpdateExisting(recs, id, data)
    ELSE Append(recs, data)

\* current_project_id after save_current_project
SavedId(id, data) == IF id # None THEN id ELSE data.project_number

\* "Save Project": save_current_project with save_projects, then the rerun;
\* outcomes are the ways the write of save_projects can end
SaveProject(outcomes) ==
    /\ pc = "ready"
    /\ project_to_load = NoProject
    /\ current_project_id = None => Len(projects) < MaxProjects
    /\ \E o \in WriteOutcomes(SavedProjects(projects, current_project_id, project_data))
                  \cap outcomes :
          /\ projects' = SavedProjects(projects, current_project_id, project_data)
          /\ current_project_id' = SavedId(current_project_id, project_data)
          /\ projects_file' = WriteJson(projects_file, projects', o[1], o[2])
          /\ last' = Last("save", o[1])
    /\ RenderUnchangedForm
    /\ UNCHANGED << project_counter, current_project_number, selected_project_indices,
                    loaded_projects_overview, project_to_load, projects_backup,
                    sampleVars, pc, raised >>

\* typing a project name: a run with the new value of the widget
EditProjectName ==
    /\ pc = "ready"
    /\ \E n \in Names :
          /\ n # project_name
          /\ project_name' = n
    /\ current_project_id' = IdAfterPending
    /\ current_project_number' = NumberAfterPending
    /\ project_to_load' = NoProject
    /\ primary_volume_mm3' = RenderPrimary(primary_weight, primary_unit, primary_volume_mm3)
    /\ box_volume_mm3' = RenderBox(box_length, box_width, box_height, dimension_unit,
                                   box_volume_mm3)
    /\ last' = NoLast
    /\ UNCHANGED << projects, project_counter, primary_weight, primary_unit,
                    box_length, box_width, box_height, dimension_unit,
                    selected_project_indices, loaded_projects_overview,
                    projects_file, projects_backup, sampleVars, pc, raised >>

\* a button click while project_to_load is pending: lines 365-389 take the
\* run over and the rerun they ask for has no click left
ConsumeProjectToLoad ==
    /\ pc = "ready"
    /\ project_to_load # NoProject
    /\ current_project_id' = IdAfterPending
    /\ current_project_number' = NumberAfterPending
    /\ project_to_load' = NoProject
    /\ RenderUnchangedForm
    /\ last' = NoLast
    /\ UNCHANGED << projects, project_counter, selected_project_indices,
                    loaded_projects_overview, projects_file, projects_backup,
                    sampleVars, pc, raised >>

\* the checkbox loop, lines 775-786, with the checkbox of idx ticked
SelectProject ==
    /\ pc = "ready"
    /\ projects # <<>>
    /\ \E idx \in 0..(Len(projects) - 1) :
          /\ idx \notin Range(selected_project_indices)
          /\ selected_project_indices' = Append(selected_project_indices, idx)
    /\ current_project_id' = IdAfterPending
    /\ current_project_number' = NumberAfterPending
    /\ project_to_load' = NoProject
    /\ RenderUnchangedForm
    /\ last' = NoLast
    /\ UNCHANGED << projects, project_counter, loaded_projects_overview,
                    projects_file, projects_backup, sampleVars, pc, raised >>

\* the checkbox loop with the checkbox of idx cleared
UnselectProject ==
    /\ pc = "ready"
    /\ projects # <<>>
    /\ \E idx \in 0..(Len(projects) - 1) :
          /\ idx \in Range(selected_project_indices)
          /\ selected_project_indices' = RemoveFirst(selected_project_indices, idx)
    /\ current_project_id' = IdAfterPending
    /\ current_project_number' = NumberAfterPending
    /\ project_to_load' = NoProject
    /\ RenderUnchangedForm
    /\ last' = NoLast
    /\ UNCHANGED << projects, project_counter, loaded_projects_overview,
                    projects_file, projects_backup, sampleVars, pc, raised >>

\* lines 900-903 and 842-846: append the selected projects the overview
\* does not hold yet, by project_number
RECURSIVE AddToOverview(_, _, _)
AddToOverview(overview, recs, idxs) ==
    IF idxs = <<>> THEN overview
    ELSE LET project == recs[Head(idxs) + 1]
         IN  IF \E i \in 1..Len(overview) :
                    overview[i].project_number = project.project_number
             THEN AddToOverview(overview, recs, Tail(idxs))
             ELSE AddToOverview(Append(overview, project), recs, Tail(idxs))

\* "Load to Calculator", lines 857-908; the run goes on to its end
LoadToCalculator ==
    /\ pc = "ready"
    /\ project_to_load = NoProject
    /\ projects # <<>>
    /\ selected_project_indices # <<>>
    /\ LET selected_project == projects[selected_project_indices[1] + 1]
       IN  /\ current_project_id' = selected_project.project_number
           /\ current_project_number' = selected_project.project_number
           /\ project_name' = selected_project.project_name
           /\ primary_weight' = selected_project.weight
           /\ primary_unit' = selected_project.weight_unit
           /\ primary_volume_mm3' = selected_project.primary_volume_mm3
           /\ box_length' = selected_project.box_length
           /\ box_width' = selected_project.box_width
           /\ box_height' = selected_project.box_height
           /\ dimension_unit' = selected_project.dimension_unit
           /\ box_volume_mm3' = selected_project.box_volume_mm3
           /\ project_to_load' = selected_project
    /\ loaded_projects_overview' =
          AddToOverview(loaded_projects_overview, projects, selected_project_indices)
    /\ last' = NoLast
    /\ UNCHANGED << projects, project_counter, selected_project_indices,
                    projects_file, projects_backup, sampleVars, pc, raised >>

\* a Delete Selected that leaves the selection as it was
DeleteKeepsSelection(outcomes) ==
    /\ pc = "ready"
    /\ project_to_load = NoProject
    /\ projects # <<>>
    /\ selected_project_indices # <<>>
    /\ \E o \in WriteOutcomes(DeleteSelected(projects, selected_project_indices))
                  \cap outcomes :
          /\ projects' = DeleteSelected(projects, selected_project_indices)
          /\ projects_file' = WriteJson(projects_file, projects', o[1], o[2])
          /\ last' = Last("delete", o[1])
    /\ RenderUnchangedForm
    /\ UNCHANGED << current_project_id, project_counter, current_project_number,
                    selected_project_indices, loaded_projects_overview,
                    project_to_load, projects_backup, sampleVars, pc, raised >>

\* "Delete Selected", lines 911-922, then the rerun
DeleteSelectedProjects(outcomes) ==
    /\ pc = "ready"
    /\ project_to_load = NoProject
    /\ projects # <<>>
    /\ selected_project_indices # <<>>
    /\ \E o \in WriteOutcomes(DeleteSelected(projects, selected_project_indices))
                  \cap outcomes :
          /\ projects' = DeleteSelected(projects, selected_project_indices)
          /\ projects_file' = WriteJson(projects_file, projects', o[1], o[2])
          /\ last' = Last("delete", o[1])
    /\ selected_project_indices' = <<>>
    /\ RenderUnchangedForm
    /\ UNCHANGED << current_project_id, project_counter, current_project_number,
                    loaded_projects_overview, project_to_load, projects_backup,
                    sampleVars, pc, raised >>

(***************************************************************************)
(* The project session: the state after the first run of a session whose   *)
(* projects file holds a collection with distinct numbers.                 *)
(***************************************************************************)
InitNumbers == FirstProjectNumber..(FirstProjectNumber + MaxInit - 1)

\* the collections the projects file holds when the session starts
StoredCollections ==
    UNION { { [i \in 1..n |-> DefaultProject(f[i], "New Project")] :
                f \in { g \in [1..n -> InitNumbers] :
                          \A i, j \in 1..n : i # j => g[i] # g[j] } } :
            n \in 0..MaxInit }

FirstRun(stored) ==
    /\ projects = stored
    /\ projects_file = File(JsonDump(stored))
    /\ projects_backup = NoFile
    /\ current_project_id = None
    /\ project_counter = InitialCounter(stored)
    /\ current_project_number = InitialCounter(stored)
    /\ project_name = "New Project"
    /\ primary_weight = DefaultWeight
    /\ primary_unit = "grams"
    /\ primary_volume_mm3 = RenderPrimary(DefaultWeight, "grams", Absent)
    /\ box_length = DefaultLength
    /\ box_width = DefaultLength
    /\ box_height = DefaultLength
    /\ dimension_unit = "cm"
    /\ box_volume_mm3 = RenderBox(DefaultLength, DefaultLength, DefaultLength, "cm", Absent)
    /\ selected_project_indices = <<>>
    /\ loaded_projects_overview = <<>>
    /\ project_to_load = NoProject
    /\ samples = <<>>
    /\ data_file = File(JsonDump(<<>>))
    /\ data_backup = NoFile
    /\ pc = "ready"
    /\ raised = FALSE
    /\ last = NoLast

Init == \E stored \in StoredCollections : FirstRun(stored)

\* every write succeeds
NoFault == {<<"ok", 0>>}

save_current_project == SaveProject(NoFault)

DeleteSelectedClick == DeleteSelectedProjects(NoFault)

Next ==
    \/ create_new_project
    \/ save_current_project
    \/ EditProjectName
    \/ ConsumeProjectToLoad
    \/ SelectProject
    \/ UnselectProject
    \/ LoadToCalculator
    \/ DeleteSelectedClick

Spec == Init /\ [][Next]_vars

(***************************************************************************)
(* The stores.  A fault is a failure of one I/O step (OSError): the read    *)
(* of a file that exists, a rename, or a write (its open, or the dump       *)
(* stopping part-way).                                                     *)
(***************************************************************************)
\* the ways a write can end: done, not opened, or cut after k chunks
AllOutcomes ==
    {<<"ok", 0>>, <<"open", 0>>} \cup {<<"cut", k>> : k \in 0..MaxCut}

\* the file and its backup after a rename that loses the file, copy not made
RenameLosing(file, backup, fails) ==
    IF ~file.exists \/ fails THEN [file |-> file, backup |-> backup]
    ELSE [file |-> NoFile, backup |-> backup]

\* if os.path.exists(name): os.rename(name, name + ".backup"), in a
\* try/except that swallows the failure; rename replaces an older backup
Rename(file, backup, fails) ==
    IF ~file.exists \/ fails THEN [file |-> file, backup |-> backup]
    ELSE [file |-> NoFile, backup |-> file]

\* a repair that quarantines every file it finds
EnsureQuarantinesAll(file, backup, default_data, f) ==
    LET r == Rename(file, backup, f.rename)
    IN  [ file |-> WriteJson(r.file, default_data, f.write[1], f.write[2]),
          backup |-> r.backup, raised |-> FALSE ]

\* ensure_valid_json_file(filename, default_data), lines 135-167
\* f.read: the read at line 150 fails; f.rename: the rename at line 163
\* fails; f.write: how the write of the default ends
ensure_valid_json_file(file, backup, default_data, f) ==
    IF ~file.exists
    THEN \* lines 140-146: every failure of the creation is swallowed
         [ file |-> WriteJson(file, default_data, f.write[1], f.write[2]),
           backup |-> backup, raised |-> FALSE ]
    ELSE IF f.read
    THEN \* OSError is not in the except clause of line 159
         [ file |-> file, backup |-> backup, raised |-> TRUE ]
    ELSE IF file.content = <<>>
    THEN \* lines 152-155
         [ file |-> WriteJson(file, default_data, f.write[1], f.write[2]),
           backup |-> backup, raised |-> f.write[1] # "ok" ]
    ELSE IF JsonValid(file.content)
    THEN [ file |-> file, backup |-> backup, raised |-> FALSE ]
    ELSE \* lines 159-167: quarantine, then the unguarded write
         LET r == Rename(file, backup, f.rename)
         IN  [ file |-> WriteJson(r.file, default_data, f.write[1], f.write[2]),
               backup |-> r.backup, raised |-> f.write[1] # "ok" ]

\* the load of the projects, lines 201-218
LoadProjects(file, backup, f) ==
    IF ~file.exists
    THEN [ value |-> <<>>, file |-> file, backup |-> backup, raised |-> FALSE ]
    ELSE IF f.read
    THEN [ value |-> <<>>, file |-> file, backup |-> backup, raised |-> TRUE ]
    ELSE IF file.content = <<>>
    THEN [ value |-> <<>>, file |-> file, backup |-> backup, raised |-> FALSE ]
    ELSE IF JsonValid(file.content)
    THEN [ value |-> JsonLoads(file.content), file |-> file, backup |-> backup,
           raised |-> FALSE ]
    ELSE LET r == Rename(file, backup, f.rename)
         IN  [ value |-> <<>>, file |-> r.file, backup |-> r.backup, raised |-> FALSE ]

\* the faults of the projects block: of ensure_valid_json_file (ev) and of
\* the load that follows it (ld)
StartFaults ==
    [ ev : [read : BOOLEAN, rename : BOOLEAN, write : {<<"ok", 0>>, <<"open", 0>>, <<"cut", 0>>}],
      ld : [read : BOOLEAN, rename : BOOLEAN] ]

NoStartFault ==
    [ ev |-> [read |-> FALSE, rename |-> FALSE, write |-> <<"ok", 0>>],
      ld |-> [read |-> FALSE, rename |-> FALSE] ]

\* the projects block of the first run, lines 195-229; an exception ends
\* the run with projects = [] already in the session (line 196), and the
\* next run goes on from line 220
\* p['project_number'] of line 226 finds the key in every loaded record
HasProjectNumbers(recs) ==
    \A i \in 1..Len(recs) : "project_number" \in DOMAIN recs[i]

StartProjects(faults) ==
    /\ pc = "samples"
    /\ \E f \in faults :
          LET e == ensure_valid_json_file(projects_file, projects_backup, <<>>, f.ev)
              l == LoadProjects(e.file, e.backup, f.ld)
          IN  /\ projects' = IF e.raised THEN <<>> ELSE l.value
              /\ projects_file' = IF e.raised THEN e.file ELSE l.file
              /\ projects_backup' = IF e.raised THEN e.backup ELSE l.backup
              /\ raised' = (raised \/ e.raised \/ l.raised
                                \/ ~HasProjectNumbers(projects'))
              /\ last' = [ NoLast EXCEPT
                             !.op = "start_projects",
                             !.before = last.before,
                             !.samples = last.samples,
                             !.file = projects_file,
                             !.backup = projects_backup,
                             !.outcome = IF f = NoStartFault THEN "ok" ELSE "fault" ]
    /\ current_project_id' = None
    /\ IF HasProjectNumbers(projects')
       THEN /\ project_counter' = InitialCounter(projects')
            /\ current_project_number' = InitialCounter(projects')
            /\ pc' = "ready"
       ELSE \* KeyError at line 226, in this run and in every run after it
            /\ UNCHANGED << project_counter, current_project_number >>
            /\ pc' = "stuck"
    /\ UNCHANGED << formVars, selected_project_indices, loaded_projects_overview,
                    project_to_load, sampleVars >>

(***************************************************************************)
(* The samples store.  A sample's weight is in hundredths of its unit.      *)
(***************************************************************************)
Sample(id, weight, unit) == [id |-> id, weight |-> weight, unit |-> unit]

\* sample_data of initialize_data, lines 110-116
sample_data ==
    << Sample("Sample-001", 15000, "grams"),
       Sample("Sample-002", 550, "ounces"),
       Sample("Sample-003", 230, "pounds"),
       Sample("Sample-004", 75, "kilograms"),
       Sample("Sample-005", 25000, "grams") >>

\* a save that leaves the file as it is
SaveNothing(file, recs, o) == file

\* save_data(samples), lines 99-105: no write failure leaves it
save_data(file, recs, o) == WriteJson(file, recs, o[1], o[2])

\* initialize_data, lines 107-117
initialize_data(file, o) ==
    IF ~file.exists THEN save_data(file, sample_data, o) ELSE file

\* load_data, lines 84-97: read_fails is an OSError of the open or read
load_data(file, read_fails) ==
    IF ~file.exists THEN [value |-> <<>>, raised |-> FALSE]
    ELSE IF read_fails THEN [value |-> <<>>, raised |-> TRUE]
    ELSE IF file.content = <<>> THEN [value |-> <<>>, raised |-> FALSE]
    ELSE IF JsonValid(file.content)
    THEN [value |-> JsonLoads(file.content), raised |-> FALSE]
    ELSE [value |-> <<>>, raised |-> FALSE]

SampleStartFaults == [read : BOOLEAN, write : AllOutcomes]

NoSampleStartFault == [read |-> FALSE, write |-> <<"ok", 0>>]

\* the samples block of the first run, lines 170-172; when load_data raises
\* the key is not set and the next run enters the block again
StartSamples(faults) ==
    /\ pc = "start"
    /\ \E f \in faults :
          /\ f.write \in WriteOutcomes(sample_data)
          /\ LET file == initialize_data(data_file, f.write)
                 l == load_data(file, f.read)
             IN  /\ data_file' = file
                 /\ samples' = l.value
                 /\ raised' = (raised \/ l.raised)
                 /\ pc' = IF l.raised THEN "start" ELSE "samples"
                 /\ last' = [ NoLast EXCEPT
                                !.op = "start_samples",
                                !.before = last.before,
                                !.samples = last.samples,
                                !.file = data_file,
                                !.backup = data_backup,
                                !.outcome = IF f = NoSampleStartFault THEN "ok" ELSE "fault",
                                !.warned = ~data_file.exists /\ st_error(f.write[1]),
                                !.writes = IF data_file.exists THEN 0 ELSE 1 ]
    /\ UNCHANGED << projects, current_project_id, project_counter, current_project_number,
                    formVars, selected_project_indices, loaded_projects_overview,
                    project_to_load, projects_file, projects_backup, data_backup >>

\* the ids, weights and units typed into the Add Sample form
SampleIds == {" ", "Sample-001", "Sample-006"}
SampleWeights == {10000}
SampleUnits == {"grams"}

\* a strip that leaves the blanks
StripNothing(id) == id

\* str.strip() of an id
Strip(id) ==
    CASE id = " " -> ""
      [] id = " Sample-006 " -> "Sample-006"
      [] OTHER -> id

\* an Add Sample check that only asks for an id
AnyIdAccepted(recs, new_id) == Strip(new_id) # ""

\* the checks of the Add Sample form, lines 1221-1223: the id is not blank
\* and no sample has it
IdAccepted(recs, new_id) ==
    /\ Strip(new_id) # ""
    /\ ~(\E i \in 1..Len(recs) : recs[i].id = new_id)

\* "Add Sample", lines 1220-1236, then the rerun
AddSample(outcomes) ==
    /\ pc = "ready"
    /\ Len(samples) < MaxSamples
    /\ \E new_id \in SampleIds, new_weight \in SampleWeights, new_unit \in SampleUnits :
          IF IdAccepted(samples, new_id)
          THEN \E o \in WriteOutcomes(Append(samples, Sample(new_id, new_weight, new_unit)))
                         \cap outcomes :
                  /\ samples' = Append(samples, Sample(new_id, new_weight, new_unit))
                  /\ data_file' = save_data(data_file, samples', o)
                  /\ last' = [ NoLast EXCEPT
                                 !.op = "add_sample",
                                 !.before = samples,
                                 !.data = [id |-> new_id],
                                 !.file = data_file,
                                 !.outcome = o[1],
                                 !.warned = st_error(o[1]),
                                 !.writes = 1 ]
          ELSE /\ UNCHANGED << samples, data_file >>
               /\ last' = [ NoLast EXCEPT
                              !.op = "add_sample_error",
                              !.before = samples,
                              !.data = [id |-> new_id],
                              !.file = data_file ]
    /\ UNCHANGED << projects, current_project_id, project_counter, current_project_number,
                    formVars, selected_project_indices, loaded_projects_overview,
                    project_to_load, projects_file, projects_backup, data_backup,
                    pc, raised >>

\* the delete button of a sample, lines 1252-1257, then the rerun
DeleteSample(outcomes) ==
    /\ pc = "ready"
    /\ \E idx \in 0..(Len(samples) - 1) :
          \E o \in WriteOutcomes(Pop(samples, idx)) \cap outcomes :
              /\ samples' = Pop(samples, idx)
              /\ data_file' = save_data(data_file, samples', o)
              /\ last' = [ NoLast EXCEPT
                             !.op = "delete_sample",
                             !.before = samples,
                             !.selected = <<idx>>,
                             !.file = data_file,
                             !.outcome = o[1],
                             !.warned = st_error(o[1]),
                             !.writes = 1 ]
    /\ UNCHANGED << projects, current_project_id, project_counter, current_project_number,
                    formVars, selected_project_indices, loaded_projects_overview,
                    project_to_load, projects_file, projects_backup, data_backup,
                    pc, raised >>

(***************************************************************************)
(* The store sessions start before the first run of the script.  The keys  *)
(* the first run has not set yet hold the values it will give them.         *)
(***************************************************************************)
BeforeFirstRun(dfile, pfile, pbackup) ==
    /\ projects = <<>>
    /\ projects_file = pfile
    /\ projects_backup = pbackup
    /\ current_project_id = None
    /\ project_counter = FirstProjectNumber
    /\ current_project_number = FirstProjectNumber
    /\ project_name = "New Project"
    /\ primary_weight = DefaultWeight
    /\ primary_unit = "grams"
    /\ primary_volume_mm3 = RenderPrimary(DefaultWeight, "grams", Absent)
    /\ box_length = DefaultLength
    /\ box_width = DefaultLength
    /\ box_height = DefaultLength
    /\ dimension_unit = "cm"
    /\ box_volume_mm3 = RenderBox(DefaultLength, DefaultLength, DefaultLength, "cm", Absent)
    /\ selected_project_indices = <<>>
    /\ loaded_projects_overview = <<>>
    /\ project_to_load = NoProject
    /\ samples = <<>>
    /\ data_file = dfile
    /\ data_backup = NoFile
    /\ pc = "start"
    /\ raised = FALSE
    /\ last = NoLast

\* an array element that is an object without the keys of a project
NamedOnly == [project_name |-> "Bracket"]

\* what the projects file can hold when a session starts: nothing, an empty
\* text, a collection, a text that is not JSON (junk, or a cut dump), or an
\* array of something else than projects
InitialProjectFiles ==
    { NoFile,
      File(<<>>),
      File(JsonDump(<<>>)),
      File(JsonDump(<<DefaultProject(FirstProjectNumber, "Bracket")>>)),
      File(<<Junk>>),
      File(<<Open, Item(DefaultProject(FirstProjectNumber, "Bracket"))>>),
      File(JsonDump(<<NamedOnly>>)) }

InitialBackups == {NoFile, File(<<Junk, Junk>>)}

\* the projects store: the first run and the saves of a session, with faults
StoreInit ==
    \E pfile \in InitialProjectFiles, pbackup \in InitialBackups :
        BeforeFirstRun(File(JsonDump(sample_data)), pfile, pbackup)

StartSamplesClean == StartSamples({NoSampleStartFault})

StartProjectsFaulty == StartProjects(StartFaults)

SaveProjectFaulty == SaveProject(AllOutcomes)

DeleteSelectedFaulty == DeleteSelectedProjects(AllOutcomes)

StoreNext ==
    \/ StartSamplesClean
    \/ StartProjectsFaulty
    \/ SaveProjectFaulty
    \/ DeleteSelectedFaulty
    \/ SelectProject
    \/ create_new_project

SpecStore == StoreInit /\ [][StoreNext]_vars

\* what the samples file can hold when a session starts
InitialSampleFiles ==
    { NoFile,
      File(<<>>),
      File(JsonDump(<<>>)),
      File(JsonDump(<<Sample("Sample-001", 15000, "grams")>>)),
      File(<<Junk>>),
      File(<<Open, Item(Sample("Sample-001", 15000, "grams"))>>) }

\* the samples store: the first run and the saves of a session, with faults
SamplesInit ==
    \E dfile \in InitialSampleFiles : BeforeFirstRun(dfile, File(JsonDump(<<>>)), NoFile)

StartSamplesFaulty == StartSamples(SampleStartFaults)

StartProjectsClean == StartProjects({NoStartFault})

AddSampleFaulty == AddSample(AllOutcomes)

DeleteSampleFaulty == DeleteSample(AllOutcomes)

SamplesNext ==
    \/ StartSamplesFaulty
    \/ StartProjectsClean
    \/ AddSampleFaulty
    \/ DeleteSampleFaulty

SpecSamples == SamplesInit /\ [][SamplesNext]_vars

(***************************************************************************)
(* Saving and loading again: a fault-free session that reloads the samples *)
(* with "Refresh Results", and sessions that follow each other on the same *)
(* files.                                                                  *)
(***************************************************************************)
\* "Refresh Results", lines 1108-1110: the samples are read from the file
RefreshResults ==
    /\ pc = "ready"
    /\ samples' = load_data(data_file, FALSE).value
    /\ last' = [ NoLast EXCEPT
                   !.op = "refresh",
                   !.samples = samples,
                   !.file = data_file ]
    /\ UNCHANGED << projects, current_project_id, project_counter, current_project_number,
                    formVars, selected_project_indices, loaded_projects_overview,
                    project_to_load, projects_file, projects_backup, data_file,
                    data_backup, pc, raised >>

\* the browser is reloaded: st.session_state is empty again and the script
\* runs from its beginning (lines 170-245), the files are what they were
NewSession ==
    /\ pc = "ready"
    /\ projects' = <<>>
    /\ current_project_id' = None
    /\ project_counter' = FirstProjectNumber
    /\ current_project_number' = FirstProjectNumber
    /\ project_name' = "New Project"
    /\ primary_weight' = DefaultWeight
    /\ primary_unit' = "grams"
    /\ primary_volume_mm3' = RenderPrimary(DefaultWeight, "grams", Absent)
    /\ box_length' = DefaultLength
    /\ box_width' = DefaultLength
    /\ box_height' = DefaultLength
    /\ dimension_unit' = "cm"
    /\ box_volume_mm3' = RenderBox(DefaultLength, DefaultLength, DefaultLength, "cm", Absent)
    /\ selected_project_indices' = <<>>
    /\ loaded_projects_overview' = <<>>
    /\ project_to_load' = NoProject
    /\ samples' = <<>>
    /\ pc' = "start"
    /\ last' = [ NoLast EXCEPT
                   !.op = "new_session",
                   !.before = projects,
                   !.samples = samples ]
    /\ UNCHANGED << projects_file, projects_backup, data_file, data_backup, raised >>

\* the first session starts with no samples file or an empty collection in
\* it, and a projects file that holds a collection
ReloadInit ==
    \E stored \in StoredCollections, dfile \in {NoFile, File(JsonDump(<<>>))} :
        BeforeFirstRun(dfile, File(JsonDump(stored)), NoFile)

AddSampleClick == AddSample(NoFault)

DeleteSampleClick == DeleteSample(NoFault)

ReloadNext ==
    \/ StartSamplesClean
    \/ StartProjectsClean
    \/ AddSampleClick
    \/ DeleteSampleClick
    \/ RefreshResults
    \/ save_current_project
    \/ EditProjectName
    \/ NewSession

SpecReload == ReloadInit /\ [][ReloadNext]_vars

(***************************************************************************)
(* ensure_valid_json_file on its own: the function applied twice to a      *)
(* projects file in any of its states, with and without I/O faults.        *)
(***************************************************************************)
EnsureFaults == [read : BOOLEAN, rename : BOOLEAN, write : AllOutcomes]

NoEnsureFault == [read |-> FALSE, rename |-> FALSE, write |-> <<"ok", 0>>]

\* the file is absent, empty, holds a collection, or holds a text that is
\* not JSON: junk, or the first chunks of a dump
EnsureFiles ==
    { NoFile, File(<<>>), File(<<Junk>>) }
    \cup { File(JsonDump(c)) : c \in StoredCollections }
    \cup { File(Prefix(JsonDump(c), k)) : c \in StoredCollections \ {<<>>},
                                        k \in 1..(MaxCut + 1) }

EnsureInit ==
    \E pfile \in EnsureFiles, pbackup \in InitialBackups :
        BeforeFirstRun(File(JsonDump(sample_data)), pfile, pbackup)

\* ensure_valid_json_file(PROJECTS_FILE, []), line 199: the first call and
\* the call after it
EnsureValid ==
    /\ pc \in {"start", "once"}
    /\ \E f \in EnsureFaults :
          /\ f.write \in WriteOutcomes(<<>>)
          /\ LET e == ensure_valid_json_file(projects_file, projects_backup, <<>>, f)
             IN  /\ projects_file' = e.file
                 /\ projects_backup' = e.backup
                 /\ raised' = (raised \/ e.raised)
                 /\ last' = [ NoLast EXCEPT
                                !.op = IF pc = "start" THEN "ensure" ELSE "ensure_again",
                                !.file = projects_file,
                                !.backup = projects_backup,
                                !.outcome = IF f = NoEnsureFault /\ last.outcome = "ok"
                                            THEN "ok" ELSE "fault" ]
    /\ pc' = IF pc = "start" THEN "once" ELSE "twice"
    /\ UNCHANGED << projects, current_project_id, project_counter, current_project_number,
                    formVars, selected_project_indices, loaded_projects_overview,
                    project_to_load, sampleVars >>

EnsureNext == EnsureValid

SpecEnsure == EnsureInit /\ [][EnsureNext]_vars

(***************************************************************************)
(* CSV import, lines 1147-1199.  A row holds the cells of the columns      *)
(* "sample id", "weight" and "unit" as text.                               *)
(***************************************************************************)
Row(id, weight, unit) == [id |-> id, weight |-> weight, unit |-> unit]

Units == {"grams", "ounces", "pounds", "kilograms"}

\* str(row['unit']).lower().strip()
LowerStrip(unit) == IF unit = " Grams" THEN "grams" ELSE unit

\* float(row['weight']): the value in hundredths, or ValueError
Float(cell) ==
    CASE cell = "100" -> [ok |-> TRUE, value |-> 10000]
      [] cell = "-5" -> [ok |-> TRUE, value |-> -500]
      [] OTHER -> [ok |-> FALSE, value |-> 0]

\* the rows a file is made of: a new sample, the same sample written with
\* blanks and a capital, a negative weight, the id of a seeded sample, a
\* unit that is not one of the four, a weight that is not a number
CsvRows ==
    { Row("Sample-006", "100", "grams"),
      Row(" Sample-006 ", "100", " Grams"),
      Row("Sample-007", "-5", "grams"),
      Row("Sample-001", "100", "grams"),
      Row("Sample-007", "100", "stones"),
      Row("Sample-007", "abc", "grams") }

CsvFiles == UNION { [1..n -> CsvRows] : n \in 0..MaxRows }

\* shorter files, for the sessions that work on both stores
ShortCsvFiles == UNION { [1..n -> CsvRows] : n \in 0..MaxShortRows }

\* a row check that looks at the unit before the id
RowVerdictUnitFirst(recs, row) ==
    IF LowerStrip(row.unit) \notin Units THEN "unit"
    ELSE IF \E i \in 1..Len(recs) : recs[i].id = Strip(row.id) THEN "duplicate"
    ELSE IF ~Float(row.weight).ok THEN "weight"
    ELSE "imported"

\* what the loop body does with a row, lines 1170-1194
RowVerdict(recs, row) ==
    IF \E i \in 1..Len(recs) : recs[i].id = Strip(row.id) THEN "duplicate"
    ELSE IF LowerStrip(row.unit) \notin Units THEN "unit"
    ELSE IF ~Float(row.weight).ok THEN "weight"
    ELSE "imported"

\* the loop over the rows, lines 1166-1194; recs is st.session_state.samples
RECURSIVE ImportLoop(_, _, _, _, _)
ImportLoop(recs, rows, imported_count, skipped_count, verdicts) ==
    IF rows = <<>>
    THEN [ samples |-> recs, imported |-> imported_count, skipped |-> skipped_count,
           verdicts |-> verdicts ]
    ELSE LET row == Head(rows)
             v == RowVerdict(recs, row)
         IN  IF v = "imported"
             THEN ImportLoop(Append(recs, Sample(Strip(row.id), Float(row.weight).value,
                                                 LowerStrip(row.unit))),
                             Tail(rows), imported_count + 1, skipped_count,
                             Append(verdicts, v))
             ELSE ImportLoop(recs, Tail(rows), imported_count, skipped_count + 1,
                             Append(verdicts, v))

\* an import that takes the rows from the last to the first
ImportBackwards(recs, rows) ==
    ImportLoop(recs, [i \in 1..Len(rows) |-> rows[Len(rows) + 1 - i]], 0, 0, <<>>)

\* imported_count = 0, skipped_count = 0, then the loop
ImportRows(recs, rows) == ImportLoop(recs, rows, 0, 0, <<>>)

\* "Import These Samples", lines 1162-1199: the loop, one save_data, rerun
ImportSamples(files, outcomes) ==
    /\ pc = "ready"
    /\ \E rows \in files :
          LET r == ImportRows(samples, rows)
          IN  /\ Len(r.samples) <= MaxSamples
              /\ \E o \in WriteOutcomes(r.samples) \cap outcomes :
                    /\ samples' = r.samples
                    /\ data_file' = save_data(data_file, samples', o)
                    /\ last' = [ NoLast EXCEPT
                                   !.op = "import",
                                   !.before = samples,
                                   !.file = data_file,
                                   !.outcome = o[1],
                                   !.warned = st_error(o[1]),
                                   !.writes = 1,
                                   !.rows = rows,
                                   !.verdicts = r.verdicts,
                                   !.imported = r.imported,
                                   !.skipped = r.skipped ]
    /\ UNCHANGED << projects, current_project_id, project_counter, current_project_number,
                    formVars, selected_project_indices, loaded_projects_overview,
                    project_to_load, projects_file, projects_backup, data_backup,
                    pc, raised >>

\* the samples file holds no sample or one sample when the session starts
ImportInit ==
    \E dfile \in { File(JsonDump(<<>>)),
                   File(JsonDump(<<Sample("Sample-001", 15000, "grams")>>)) } :
        BeforeFirstRun(dfile, File(JsonDump(<<>>)), NoFile)

ImportSamplesClick == ImportSamples(CsvFiles, NoFault)

ImportNext ==
    \/ StartSamplesClean
    \/ StartProjectsClean
    \/ AddSampleClick
    \/ DeleteSampleClick
    \/ ImportSamplesClick

SpecImport == ImportInit /\ [][ImportNext]_vars

(***************************************************************************)
(* The calculator form and the overview: editing the inputs, the two       *)
(* Calculate buttons and the overview buttons, next to New Project, Save   *)
(* Project, Load to Calculator and Delete Selected.                        *)
(***************************************************************************)
\* what is typed into "Weight of Water" and into "Length"
Weights == {0, DefaultWeight}
Lengths == {0, DefaultLength}

\* the start of a run in which no button of the first tab is clicked
PendingConsumed ==
    /\ current_project_id' = IdAfterPending
    /\ current_project_number' = NumberAfterPending
    /\ project_to_load' = NoProject

\* a new value in the number_input "primary_weight", lines 470-477, and the
\* run that follows
EditWeight ==
    /\ pc = "ready"
    /\ \E w \in Weights :
          /\ w # primary_weight
          /\ primary_weight' = w
          /\ primary_volume_mm3' = RenderPrimary(w, primary_unit, primary_volume_mm3)
    /\ box_volume_mm3' = RenderBox(box_length, box_width, box_height, dimension_unit,
                                   box_volume_mm3)
    /\ PendingConsumed
    /\ last' = NoLast
    /\ UNCHANGED << projects, project_counter, project_name, primary_unit,
                    box_length, box_width, box_height, dimension_unit,
                    selected_project_indices, loaded_projects_overview,
                    projects_file, projects_backup, sampleVars, pc, raised >>

\* a new value in the number_input "box_length", lines 548-555
EditBoxLength ==
    /\ pc = "ready"
    /\ \E l \in Lengths :
          /\ l # box_length
          /\ box_length' = l
          /\ box_volume_mm3' = RenderBox(l, box_width, box_height, dimension_unit,
                                         box_volume_mm3)
    /\ primary_volume_mm3' = RenderPrimary(primary_weight, primary_unit, primary_volume_mm3)
    /\ PendingConsumed
    /\ last' = NoLast
    /\ UNCHANGED << projects, project_counter, project_name, primary_weight, primary_unit,
                    box_width, box_height, dimension_unit,
                    selected_project_indices, loaded_projects_overview,
                    projects_file, projects_backup, sampleVars, pc, raised >>

\* "Calculate Volume", lines 486-495: calculate_btn is true in this run
CalculateVolume ==
    /\ pc = "ready"
    /\ primary_volume_mm3' = calculate_volume_mm3(primary_weight, primary_unit)
    /\ box_volume_mm3' = RenderBox(box_length, box_width, box_height, dimension_unit,
                                   box_volume_mm3)
    /\ PendingConsumed
    /\ last' = NoLast
    /\ UNCHANGED << projects, project_counter, project_name, primary_weight, primary_unit,
                    box_length, box_width, box_height, dimension_unit,
                    selected_project_indices, loaded_projects_overview,
                    projects_file, projects_backup, sampleVars, pc, raised >>

\* "Calculate Box Volume", lines 589-620: calc_box_btn is true in this run
CalculateBoxVolume ==
    /\ pc = "ready"
    /\ primary_volume_mm3' = RenderPrimary(primary_weight, primary_unit, primary_volume_mm3)
    /\ box_volume_mm3' = BoxVolumeMm3(box_length, box_width, box_height, dimension_unit)
    /\ PendingConsumed
    /\ last' = NoLast
    /\ UNCHANGED << projects, project_counter, project_name, primary_weight, primary_unit,
                    box_length, box_width, box_height, dimension_unit,
                    selected_project_indices, loaded_projects_overview,
                    projects_file, projects_backup, sampleVars, pc, raised >>

\* "Add Selected to Overview", lines 839-854
AddSelectedToOverview ==
    /\ pc = "ready"
    /\ selected_project_indices # <<>>
    /\ loaded_projects_overview' =
          AddToOverview(loaded_projects_overview, projects, selected_project_indices)
    /\ PendingConsumed
    /\ RenderUnchangedForm
    /\ last' = NoLast
    /\ UNCHANGED << projects, project_counter, selected_project_indices,
                    projects_file, projects_backup, sampleVars, pc, raised >>

\* a removal that takes the record out of the collection as well
RemoveFromOverviewAndProjects ==
    /\ pc = "ready"
    /\ \E idx \in 0..(Len(loaded_projects_overview) - 1) :
          /\ loaded_projects_overview' = Pop(loaded_projects_overview, idx)
          /\ projects' = SelectSeq(projects,
                                   LAMBDA p : p # loaded_projects_overview[idx + 1])
    /\ PendingConsumed
    /\ RenderUnchangedForm
    /\ last' = NoLast
    /\ UNCHANGED << project_counter, selected_project_indices,
                    projects_file, projects_backup, sampleVars, pc, raised >>

\* "Remove from Overview", lines 977-979
RemoveFromOverview ==
    /\ pc = "ready"
    /\ \E idx \in 0..(Len(loaded_projects_overview) - 1) :
          loaded_projects_overview' = Pop(loaded_projects_overview, idx)
    /\ PendingConsumed
    /\ RenderUnchangedForm
    /\ last' = NoLast
    /\ UNCHANGED << projects, project_counter, selected_project_indices,
                    projects_file, projects_backup, sampleVars, pc, raised >>

\* "Clear All from Overview", lines 982-984
ClearOverview ==
    /\ pc = "ready"
    /\ loaded_projects_overview # <<>>
    /\ loaded_projects_overview' = <<>>
    /\ PendingConsumed
    /\ RenderUnchangedForm
    /\ last' = NoLast
    /\ UNCHANGED << projects, project_counter, selected_project_indices,
                    projects_file, projects_backup, sampleVars, pc, raised >>

\* the calculator: edits, calculations, New Project, Save Project and Load
\* to Calculator
FormNext ==
    \/ create_new_project
    \/ save_current_project
    \/ EditWeight
    \/ EditBoxLength
    \/ CalculateVolume
    \/ CalculateBoxVolume
    \/ ConsumeProjectToLoad
    \/ SelectProject
    \/ LoadToCalculator

SpecForm == Init /\ [][FormNext]_vars

\* the calculator and the overview together, in sessions that keep the
\* collection, the selection and the overview short
NewProjectClick ==
    create_new_project /\ project_counter' <= FirstProjectNumber + MaxInit

SaveProjectClick == save_current_project /\ Len(projects') <= MaxSaved

SelectProjectClick == SelectProject /\ Len(selected_project_indices') <= MaxSelected

LoadToCalculatorClick ==
    LoadToCalculator /\ Len(loaded_projects_overview') <= MaxOverview

AddSelectedToOverviewClick ==
    AddSelectedToOverview /\ Len(loaded_projects_overview') <= MaxOverview

FrameNext ==
    \/ NewProjectClick
    \/ SaveProjectClick
    \/ EditWeight
    \/ CalculateVolume
    \/ CalculateBoxVolume
    \/ ConsumeProjectToLoad
    \/ SelectProjectClick
    \/ LoadToCalculatorClick
    \/ AddSelectedToOverviewClick
    \/ RemoveFromOverview
    \/ ClearOverview
    \/ DeleteSelectedClick

SpecFrame == Init /\ [][FrameNext]_vars

(***************************************************************************)
(* The conversions on their own.  A decimal number is a mantissa m and a   *)
(* count e of digits after the point: Dec(m, e) is m / 10^e.               *)
(***************************************************************************)
Dec(m, e) == [m |-> m, e |-> e]

\* the same number without zeros at the end of its fraction
RECURSIVE Norm(_)
Norm(d) ==
    IF d.m = 0 THEN Dec(0, 0)
    ELSE IF d.e > 0 /\ d.m % 10 = 0 THEN Norm(Dec(d.m \div 10, d.e - 1))
    ELSE d

\* weight * factor
Times(w, f) == Norm(Dec(w.m * f.m, w.e + f.e))

\* a table whose cubic inches of an ounce are cut to two digits
ConversionsShort ==
    [ grams |-> [mm3 |-> Dec(1000, 0), cm3 |-> Dec(1, 0), in3 |-> Dec(61023744, 9)],
      ounces |-> [mm3 |-> Dec(283168466, 4), cm3 |-> Dec(283168466, 7),
                  in3 |-> Dec(173, 2)],
      pounds |-> [mm3 |-> Dec(45359237, 2), cm3 |-> Dec(45359237, 5),
                  in3 |-> Dec(276806742, 7)],
      kilograms |-> [mm3 |-> Dec(1000000, 0), cm3 |-> Dec(1000, 0),
                     in3 |-> Dec(61023744, 6)] ]

\* conversions of calculate_volume, lines 121-126
conversions ==
    [ grams |-> [mm3 |-> Dec(1000, 0), cm3 |-> Dec(1, 0), in3 |-> Dec(61023744, 9)],
      ounces |-> [mm3 |-> Dec(283168466, 4), cm3 |-> Dec(283168466, 7),
                  in3 |-> Dec(17295904, 7)],
      pounds |-> [mm3 |-> Dec(45359237, 2), cm3 |-> Dec(45359237, 5),
                  in3 |-> Dec(276806742, 7)],
      kilograms |-> [mm3 |-> Dec(1000000, 0), cm3 |-> Dec(1000, 0),
                     in3 |-> Dec(61023744, 6)] ]

\* calculate_volume(weight, unit), lines 119-133
calculate_volume(weight, unit) ==
    LET results == conversions[unit]
    IN  [ mm3 |-> Times(weight, results.mm3),
          cm3 |-> Times(weight, results.cm3),
          in3 |-> Times(weight, results.in3) ]

\* the weights that are converted: whole numbers and tenths
ConvertWeights == { Dec(w, e) : w \in 0..MaxWeight, e \in {0, 1} }

(***************************************************************************)
(* The views that show a volume in another unit multiply the cubic          *)
(* millimetres by a factor.  The products have more digits than a machine  *)
(* integer, so they are computed digit by digit: a number is the digits of *)
(* its mantissa, lowest first, and the count e of digits in its fraction.  *)
(***************************************************************************)
\* the decimal digits of a natural number, lowest first
RECURSIVE Digits(_)
Digits(n) == IF n < 10 THEN <<n>> ELSE <<n % 10>> \o Digits(n \div 10)

\* the sum of the digit products a[i] * b[j] of column k = i + j - 1
RECURSIVE SumCol(_, _, _, _)
SumCol(a, b, k, i) ==
    IF i > Len(a) THEN 0
    ELSE (IF (k - i + 1) \in 1..Len(b) THEN a[i] * b[k - i + 1] ELSE 0)
         + SumCol(a, b, k, i + 1)

\* the digits of a sequence of column sums
RECURSIVE Carry(_, _)
Carry(cols, c) ==
    IF cols = <<>> THEN (IF c = 0 THEN <<>> ELSE Digits(c))
    ELSE LET t == Head(cols) + c
         IN  <<t % 10>> \o Carry(Tail(cols), t \div 10)

\* the digits without zeros at the high end
RECURSIVE StripLeading(_)
StripLeading(d) ==
    IF Len(d) > 1 /\ d[Len(d)] = 0 THEN StripLeading(SubSeq(d, 1, Len(d) - 1))
    ELSE d

\* the digits of the product of two naturals
MulDigits(a, b) ==
    StripLeading(Carry([k \in 1..(Len(a) + Len(b) - 1) |-> SumCol(a, b, k, 1)], 0))

\* a decimal with the digits of its mantissa
Big(x) == [d |-> Digits(x.m), e |-> x.e]

\* volume * factor, every digit of it
BigTimes(x, f) == [d |-> MulDigits(Digits(x.m), Digits(f.m)), e |-> x.e + f.e]

\* mm3_to_remaining, lines 645-650, and mm3_to_unit, lines 1001-1006
mm3_to_unit ==
    [ cubic_mm |-> Dec(1, 0),
      cubic_cm |-> Dec(1, 3),
      cubic_inches |-> Dec(61023744, 12),
      cubic_feet |-> Dec(35315, 12) ]

ComparisonUnits == DOMAIN mm3_to_unit

\* product_volume of the comparison view, line 1016, in every unit
product_volumes(product_volume_mm3) ==
    [ comparison_unit \in ComparisonUnits |->
        BigTimes(product_volume_mm3, mm3_to_unit[comparison_unit]) ]

\* calculate_volume applied to a weight and a unit, and the views of the
\* cubic millimetres it returns
ConvertWeight ==
    /\ pc = "ready"
    /\ \E weight \in ConvertWeights, unit \in Units :
          last' = [ NoLast EXCEPT
                      !.op = "convert",
                      !.data = [weight |-> weight, unit |-> unit],
                      !.results = calculate_volume(weight, unit),
                      !.views = product_volumes(calculate_volume(weight, unit).mm3) ]
    /\ UNCHANGED << projects, current_project_id, project_counter, current_project_number,
                    formVars, selected_project_indices, loaded_projects_overview,
                    project_to_load, projects_file, projects_backup, sampleVars,
                    pc, raised >>

\* a quotient n / d with d > 0, in lowest terms
RECURSIVE Gcd(_, _)
Gcd(a, b) == IF b = 0 THEN a ELSE Gcd(b, a % b)

Abs(n) == IF n < 0 THEN 0 - n ELSE n

Quotient(n, d) ==
    LET g == Gcd(Abs(n), d)
    IN  [n |-> (IF n < 0 THEN 0 - (Abs(n) \div g) ELSE n \div g), d |-> d \div g]

Whole(n) == [n |-> n, d |-> 1]

\* a percentage taken of the remaining volume instead of the box volume
PercentOfRemaining(part, box_volume) ==
    IF box_volume - part > 0 THEN Quotient(part * 100, box_volume - part) ELSE Whole(0)

\* (part / box_volume_mm3) * 100 under `if box_volume_mm3 > 0`, else 0:
\* lines 653-658 and 1018-1023
Percent(part, box_volume) ==
    IF box_volume > 0 THEN Quotient(part * 100, box_volume) ELSE Whole(0)

NotShown == [shown |-> FALSE]

\* "Remaining Volume Analysis", lines 635-658: computed when the product
\* volume in session state is positive
remaining_analysis(box_volume, product_volume) ==
    IF product_volume > 0
    THEN [ shown |-> TRUE,
           remaining_volume_mm3 |-> box_volume - product_volume,
           efficiency |-> Percent(product_volume, box_volume),
           remaining_pct |-> Percent(box_volume - product_volume, box_volume) ]
    ELSE NotShown

\* "Remaining Volume Comparison", lines 990-1023: computed for the projects
\* of the overview that have a positive box volume
remaining_comparison(box_volume, product_volume) ==
    IF box_volume > 0
    THEN [ shown |-> TRUE,
           remaining_volume_mm3 |-> box_volume - product_volume,
           efficiency |-> Percent(product_volume, box_volume),
           remaining_pct |-> Percent(box_volume - product_volume, box_volume) ]
    ELSE NotShown

\* the volumes in mm3 that are compared: VolumeStep times 0..MaxVolume
Volumes == { VolumeStep * k : k \in 0..MaxVolume }

\* both computations applied to a box volume and a product volume
ComputeRemaining ==
    /\ pc = "ready"
    /\ \E box_volume \in Volumes, product_volume \in Volumes :
          last' = [ NoLast EXCEPT
                      !.op = "remaining",
                      !.data = [box |-> box_volume, product |-> product_volume],
                      !.results = [ analysis |-> remaining_analysis(box_volume, product_volume),
                                    comparison |-> remaining_comparison(box_volume,
                                                                        product_volume) ] ]
    /\ UNCHANGED << projects, current_project_id, project_counter, current_project_number,
                    formVars, selected_project_indices, loaded_projects_overview,
                    project_to_load, projects_file, projects_backup, sampleVars,
                    pc, raised >>

ConvertInit == FirstRun(<<>>)

ConvertNext ==
    \/ ConvertWeight
    \/ ComputeRemaining

SpecConvert == ConvertInit /\ [][ConvertNext]_vars

(***************************************************************************)
(* Both stores in one session: the five operations that change a           *)
(* collection and write its file.  The writes of the projects can fail.    *)
(***************************************************************************)
ImportShortClick == ImportSamples(ShortCsvFiles, NoFault)

SyncNext ==
    \/ StartSamplesClean
    \/ StartProjectsClean
    \/ AddSampleClick
    \/ DeleteSampleClick
    \/ ImportShortClick
    \/ SaveProjectFaulty
    \/ SelectProject
    \/ DeleteSelectedFaulty

SpecSync == ImportInit /\ [][SyncNext]_vars

(***************************************************************************)
(* The deletion session: a session whose projects file holds up to         *)
(* MaxDelete records, in which projects are selected, unselected and        *)
(* deleted.                                                                *)
(***************************************************************************)
DeleteInit ==
    \E n \in 0..MaxDelete :
        FirstRun([i \in 1..n |-> DefaultProject(FirstProjectNumber + i - 1, "New Project")])

DeleteNext ==
    \/ SelectProject
    \/ UnselectProject
    \/ DeleteSelectedClick

SpecDelete == DeleteInit /\ [][DeleteNext]_vars

(***************************************************************************)
(* The selection session: the deletion session with New Project and Save   *)
(* Project, so that the collection grows and shrinks under a selection.    *)
(***************************************************************************)
SelectNext ==
    \/ SelectProject
    \/ UnselectProject
    \/ create_new_project
    \/ save_current_project
    \/ DeleteSelectedClick

SpecSelect == DeleteInit /\ [][SelectNext]_vars

(***************************************************************************)
(* Properties of the project collection.                                   *)
(***************************************************************************)
SaveAppended == last.op = "save" /\ last.id = None

\* C1: no two records of the projects collection have the same
\* project_number, whatever New Project, Save Project, Load to Calculator
\* and Delete Selected were clicked.
C1_UniqueProjectNumbers ==
    \A i, j \in 1..Len(projects) :
        i # j => projects[i].project_number # projects[j].project_number

\* C2: a project that Save Project appends gets the number
\* max(project_number over the collection at that moment) + 1, or 1000 when
\* the collection is empty.
C2_AppendedNumberIsNext ==
    SaveAppended => last.data.project_number = next_project_number(last.before)

\* C3: when a record with the form's project_number is in the collection,
\* Save Project replaces it where it is: same length, the record at its
\* position is the form's, every other record is as it was.
C3_ReplaceInPlace ==
    (last.op = "save" /\ FirstIndexOf(last.before, last.data.project_number) # 0) =>
        /\ Len(projects) = Len(last.before)
        /\ \A i \in 1..Len(last.before) :
              projects[i] = IF i = FirstIndexOf(last.before, last.data.project_number)
                            THEN last.data
                            ELSE last.before[i]

\* C4: when no record with the form's project_number is in the collection,
\* Save Project appends the form's record; so after every Save Project the
\* collection and the projects file hold a record with the form's number
\* and field values.
C4_SavedRecordStored ==
    last.op = "save" =>
        /\ FirstIndexOf(last.before, last.data.project_number) = 0 =>
              projects = Append(last.before, last.data)
        /\ \E i \in 1..Len(projects) : projects[i] = last.data
        /\ last.outcome = "ok" =>
              /\ JsonValid(projects_file.content)
              /\ \E i \in 1..Len(JsonLoads(projects_file.content)) :
                    JsonLoads(projects_file.content)[i] = last.data

\* the records at the positions that are not selected, in their order
RECURSIVE KeepUnselected(_, _, _)
KeepUnselected(recs, selected, i) ==
    IF i > Len(recs) THEN <<>>
    ELSE (IF (i - 1) \in Range(selected) THEN <<>> ELSE <<recs[i]>>)
         \o KeepUnselected(recs, selected, i + 1)

\* C5: Delete Selected leaves exactly the records at the unselected
\* positions, in their original order, in whatever order the positions were
\* selected.
C5_DeleteRemovesSelected ==
    last.op = "delete" =>
        /\ projects = KeepUnselected(last.before, last.selected, 1)
        /\ Len(projects) = Len(last.before) - Len(last.selected)

\* two of five records deleted, selected in ascending order of position
C5_Witness ==
    /\ last.op = "delete"
    /\ Len(last.before) = 5
    /\ Len(last.selected) = 2
    /\ last.selected[1] < last.selected[2]
    /\ Len(projects) = 3

\* C6: after Delete Selected no record of the collection has the
\* project_number of a record that was deleted.
C6_DeletedNumbersGone ==
    last.op = "delete" =>
        \A i \in 1..Len(projects) :
            \A k \in Range(last.selected) :
                projects[i].project_number # last.before[k + 1].project_number

(***************************************************************************)
(* Properties of the stores.                                               *)
(***************************************************************************)
NotJson(file) == file.exists /\ file.content # <<>> /\ ~JsonValid(file.content)

\* C7: when the projects file holds non-JSON content at the start of the
\* session and no I/O step fails, then after ensure_valid_json_file and the
\* load the projects collection is empty, the projects file holds the empty
\* default, the backup holds the original content, and nothing was raised.
C7_CorruptProjectsRecovered ==
    (last.op = "start_projects" /\ last.outcome = "ok" /\ NotJson(last.file)) =>
        /\ projects = <<>>
        /\ projects_file = File(JsonDump(<<>>))
        /\ projects_backup = last.file
        /\ ~raised

\* a session that started from a junk projects file
C7_Witness ==
    /\ last.op = "start_projects"
    /\ last.outcome = "ok"
    /\ last.file = File(<<Junk>>)
    /\ projects_backup = File(<<Junk>>)
    /\ projects_file = File(<<EmptyArr>>)
    /\ projects = <<>>

\* C8: when load_data reads a samples file that is not JSON, the file is
\* moved to the backup and the samples collection is empty.
C8_CorruptSamplesQuarantined ==
    (last.op = "start_samples" /\ last.outcome = "ok" /\ NotJson(last.file)) =>
        /\ samples = <<>>
        /\ data_backup = last.file

\* C9: no store operation raises to its caller, whatever the file holds and
\* whichever I/O step fails.
C9_NoStoreOperationRaises == ~raised

\* C10: after a save attempt the projects file holds either what it held
\* before or the complete serialization of the collection.
C10_SaveAllOrNothing ==
    last.op \in {"save", "delete"} =>
        \/ projects_file = last.file
        \/ projects_file = File(JsonDump(projects))

\* the write of the last Save Project or Delete Selected did not complete
SaveFailed(l) == l.op \in {"save", "delete"} /\ l.outcome # "ok"

\* the collection the handler built in memory before it called save_projects
AfterMutation(l) ==
    IF l.op = "delete" THEN KeepUnselected(l.before, l.selected, 1)
    ELSE IF l.id = None THEN l.before \o <<l.data>>
    ELSE [ i \in 1..Len(l.before) |->
             IF /\ l.before[i].project_number = l.id
                /\ \A j \in 1..(i - 1) : l.before[j].project_number # l.id
             THEN l.data ELSE l.before[i] ]

C12_SaveLoadRoundTrip ==
    /\ (last.op = "refresh" /\ last.file = File(JsonDump(last.samples))) =>
          samples = last.samples
    /\ (last.op = "start_samples" /\ last.file = File(JsonDump(last.samples))) =>
          samples = last.samples
    /\ (last.op = "start_projects" /\ last.file = File(JsonDump(last.before))) =>
          projects = last.before

\* the second session has read back two projects, one of them saved under
\* another name, and the samples of the first session with the added one
C12_Witness ==
    /\ last.op = "start_projects"
    /\ last.file = File(JsonDump(last.before))
    /\ Len(projects) = 2
    /\ \E i \in 1..2 : projects[i].project_name = "Bracket"
    /\ last.samples = samples
    /\ \E i \in 1..Len(samples) : samples[i].id = "Sample-006"
    /\ data_file = File(JsonDump(samples))

\* C13: when no I/O step fails, a second call of ensure_valid_json_file
\* leaves the file and the backup as the first call left them, whatever the
\* file held at first; and a call on a file that is present and parses
\* changes neither the file nor the backup and raises nothing.
C13_EnsureValidIdempotent ==
    /\ (last.op = "ensure_again" /\ last.outcome = "ok") =>
          /\ projects_file = last.file
          /\ projects_backup = last.backup
          /\ ~raised
    /\ ( /\ last.op \in {"ensure", "ensure_again"}
         /\ last.outcome = "ok"
         /\ last.file.exists
         /\ last.file.content # <<>>
         /\ JsonValid(last.file.content) ) =>
          /\ projects_file = last.file
          /\ projects_backup = last.backup
          /\ ~raised

\* the second call after a first call that moved a cut dump to the backup
\* and wrote the empty default
C13_Witness ==
    /\ last.op = "ensure_again"
    /\ last.outcome = "ok"
    /\ projects_file = File(JsonDump(<<>>))
    /\ projects_backup.exists
    /\ projects_backup.content # <<>>
    /\ projects_backup.content[1] = Open
    /\ ~JsonValid(projects_backup.content)

\* the file holds JSON, but not a list of project records
WrongShape(file) ==
    /\ file.exists
    /\ file.content # <<>>
    /\ JsonValid(file.content)
    /\ \E i \in 1..Len(JsonLoads(file.content)) :
          DOMAIN JsonLoads(file.content)[i] # DOMAIN DefaultProject(FirstProjectNumber, "")

\* C14: when the projects file holds JSON of the wrong shape at the start of
\* the session and no I/O step fails, the file is moved to the backup, the
\* projects collection is empty, and nothing is raised.
C14_WrongShapeQuarantined ==
    (last.op = "start_projects" /\ last.outcome = "ok" /\ WrongShape(last.file)) =>
        /\ projects = <<>>
        /\ projects_backup = last.file
        /\ ~raised

(***************************************************************************)
(* Properties of the samples collection.                                   *)
(***************************************************************************)
\* C15: no two samples of the collection have the same id, after any
\* sequence of Add Sample, CSV import and sample delete.
C15_UniqueSampleIds ==
    \A i, j \in 1..Len(samples) : i # j => samples[i].id # samples[j].id

\* an import of a file that names the same new sample twice, after which
\* the collection holds it once
C15_Witness ==
    /\ last.op = "import"
    /\ \E i, j \in 1..Len(last.rows) :
          /\ i < j
          /\ last.verdicts[i] = "imported"
          /\ last.verdicts[j] = "duplicate"
          /\ Strip(last.rows[i].id) = Strip(last.rows[j].id)
    /\ Len(samples) >= 2

\* the sample is in the collection under the id the row has when stripped
HasId(recs, row) == \E i \in 1..Len(recs) : recs[i].id = Strip(row.id)

\* C16 as stated: a row of an import is skipped as a duplicate exactly when
\* its id was in the collection before the import started.
C16_DuplicateAgainstStart ==
    last.op = "import" =>
        \A k \in 1..Len(last.rows) :
            (last.verdicts[k] = "duplicate") <=> HasId(last.before, last.rows[k])

\* C16: a row of an import is skipped as a duplicate exactly when its id is
\* in the collection at the time the row is looked at: it was in the
\* collection before the import started, or an earlier row of the same file
\* was imported under it.
C16_DuplicateAgainstCurrent ==
    last.op = "import" =>
        \A k \in 1..Len(last.rows) :
            (last.verdicts[k] = "duplicate") <=>
                \/ HasId(last.before, last.rows[k])
                \/ \E j \in 1..(k - 1) :
                      /\ last.verdicts[j] = "imported"
                      /\ Strip(last.rows[j].id) = Strip(last.rows[k].id)

\* a file whose second row repeats the new sample of its first row, written
\* with blanks: the first row is imported, the second is skipped
C16_Witness ==
    /\ last.op = "import"
    /\ last.verdicts = <<"imported", "duplicate">>
    /\ last.rows[1].id = "Sample-006"
    /\ last.rows[2].id = " Sample-006 "
    /\ ~HasId(last.before, last.rows[2])
    /\ Len(samples) = Len(last.before) + 1

\* the samples made of the rows marked as imported, in the order of the rows
RECURSIVE AcceptedRows(_, _, _)
AcceptedRows(rows, verdicts, k) ==
    IF k > Len(rows) THEN <<>>
    ELSE (IF verdicts[k] = "imported"
          THEN << Sample(Strip(rows[k].id), Float(rows[k].weight).value,
                         LowerStrip(rows[k].unit)) >>
          ELSE <<>>)
         \o AcceptedRows(rows, verdicts, k + 1)

\* C17: after an import the two counts add up to the number of rows, the
\* collection is the one before the import followed by the imported rows in
\* the order of the file, and the file was written once, with the whole
\* collection.
C17_ImportAccounting ==
    last.op = "import" =>
        /\ last.imported + last.skipped = Len(last.rows)
        /\ last.imported = Cardinality({k \in 1..Len(last.rows) : last.verdicts[k] = "imported"})
        /\ Len(samples) = Len(last.before) + last.imported
        /\ samples = last.before \o AcceptedRows(last.rows, last.verdicts, 1)
        /\ last.writes = 1
        /\ data_file = File(JsonDump(samples))

\* an import into a collection that is not empty, with a row imported and a
\* row skipped
C17_Witness ==
    /\ last.op = "import"
    /\ last.before # <<>>
    /\ last.imported = 1
    /\ last.skipped = 1
    /\ samples # last.before
    /\ data_file # last.file

\* C18: every sample of the collection has a weight that is not negative and
\* one of the four units.
C18_SamplesInDomain ==
    \A i \in 1..Len(samples) : samples[i].weight >= 0 /\ samples[i].unit \in Units

(***************************************************************************)
(* Properties of the calculator form.                                      *)
(***************************************************************************)
\* C19: every record of the projects collection holds the volumes that its
\* own weight and box dimensions give.
C19_StoredVolumesDerived ==
    \A i \in 1..Len(projects) :
        /\ projects[i].primary_volume_mm3 =
              calculate_volume_mm3(projects[i].weight, projects[i].weight_unit)
        /\ projects[i].box_volume_mm3 =
              BoxVolumeMm3(projects[i].box_length, projects[i].box_width,
                           projects[i].box_height, projects[i].dimension_unit)

\* C20: the projects collection and the projects file change only in a step
\* of Save Project or Delete Selected.
C20_OnlySaveAndDeleteChangeProjects ==
    [][ (projects' # projects \/ projects_file' # projects_file) =>
            last'.op \in {"save", "delete"} ]_vars

\* after an edit of the weight, Calculate Volume and Load to Calculator,
\* with no save or delete as the last step, the file holds the collection
C20_Witness ==
    /\ last.op = "other"
    /\ primary_weight = 0
    /\ primary_volume_mm3 = 0
    /\ current_project_id # None
    /\ loaded_projects_overview # <<>>
    /\ projects # <<>>
    /\ projects_file = File(JsonDump(projects))

(***************************************************************************)
(* Properties of the conversions.                                          *)
(***************************************************************************)
\* the factors as the specification lists them
FactorTable ==
    [ grams |-> [mm3 |-> Dec(1000, 0), cm3 |-> Dec(1, 0), in3 |-> Dec(61023744, 9)],
      ounces |-> [mm3 |-> Dec(283168466, 4), cm3 |-> Dec(283168466, 7),
                  in3 |-> Dec(17295904, 7)],
      pounds |-> [mm3 |-> Dec(45359237, 2), cm3 |-> Dec(45359237, 5),
                  in3 |-> Dec(276806742, 7)],
      kilograms |-> [mm3 |-> Dec(1000000, 0), cm3 |-> Dec(1000, 0),
                     in3 |-> Dec(61023744, 6)] ]

\* C21: for every unit and weight, calculate_volume returns weight times the
\* factor of the table for mm3, cm3 and in3, unrounded; 1 gram gives 1000 mm3,
\* 1 cm3 and 0.061023744 in3.
C21_ConversionTable ==
    last.op = "convert" =>
        LET w == last.data.weight
            f == FactorTable[last.data.unit]
        IN  /\ last.results.mm3 = Norm(Dec(w.m * f.mm3.m, w.e + f.mm3.e))
            /\ last.results.cm3 = Norm(Dec(w.m * f.cm3.m, w.e + f.cm3.e))
            /\ last.results.in3 = Norm(Dec(w.m * f.in3.m, w.e + f.in3.e))
            /\ (w = Dec(1, 0) /\ last.data.unit = "grams") =>
                  last.results = [mm3 |-> Dec(1000, 0), cm3 |-> Dec(1, 0),
                                  in3 |-> Dec(61023744, 9)]

\* half an ounce converted: 14158.4233 mm3, 14.1584233 cm3, 0.8647952 in3
C21_Witness ==
    /\ last.op = "convert"
    /\ last.data = [weight |-> Dec(5, 1), unit |-> "ounces"]
    /\ last.results = [mm3 |-> Dec(141584233, 4), cm3 |-> Dec(141584233, 7),
                       in3 |-> Dec(8647952, 7)]

\* C22: where the remaining volume is computed, it is box volume minus
\* product volume, negative when the product is larger; with a positive box
\* volume the efficiency is 100 * product / box and the remaining percentage
\* is 100 * remaining / box, and the two add up to 100; with a box volume of
\* 0 both are 0; the Analyzer tab and the overview comparison agree.
C22_RemainingAndEfficiency ==
    last.op = "remaining" =>
        LET box == last.data.box
            product == last.data.product
            a == last.results.analysis
            c == last.results.comparison
            AsClaimed(r) ==
                /\ r.remaining_volume_mm3 = box - product
                /\ box > 0 =>
                      /\ r.efficiency.n * box = 100 * product * r.efficiency.d
                      /\ r.remaining_pct.n * box = 100 * (box - product) * r.remaining_pct.d
                      /\ r.efficiency.n * r.remaining_pct.d
                            + r.remaining_pct.n * r.efficiency.d
                         = 100 * r.efficiency.d * r.remaining_pct.d
                /\ ~(box > 0) => (r.efficiency = Whole(0) /\ r.remaining_pct = Whole(0))
        IN  /\ a.shown = (product > 0)
            /\ c.shown = (box > 0)
            /\ a.shown => AsClaimed(a)
            /\ c.shown => AsClaimed(c)
            /\ (a.shown /\ c.shown) => a = c

\* a product of 1000 mm3 in a box of 500 mm3: -500 mm3 remain, 200 percent
\* used, -100 percent free, in both places
C22_Witness ==
    /\ last.op = "remaining"
    /\ last.data = [box |-> 500, product |-> 1000]
    /\ last.results.analysis.remaining_volume_mm3 = -500
    /\ last.results.analysis.efficiency = Whole(200)
    /\ last.results.comparison.remaining_pct = Whole(-100)

(***************************************************************************)
(* Rejected input, and the files after the operations.                     *)
(***************************************************************************)
\* C23: Add Sample with a blank id, or with the id of a sample of the
\* collection, shows an error and leaves the samples collection and the
\* samples file as they were.
C23_AddSampleRejects ==
    ( /\ last.op \in {"add_sample", "add_sample_error"}
      /\ \/ last.data.id \in {"", " "}
         \/ \E i \in 1..Len(last.before) : last.before[i].id = last.data.id ) =>
        /\ last.op = "add_sample_error"
        /\ samples = last.before
        /\ data_file = last.file

\* the id of the first sample typed again, and a blank id
C23_Witness ==
    /\ last.op = "add_sample_error"
    /\ samples # <<>>
    /\ last.data.id \in {samples[1].id, " "}
    /\ samples = last.before
    /\ data_file = File(JsonDump(samples))

\* C24: after Add Sample, sample delete, CSV import, Save Project or Delete
\* Selected whose write succeeded, loading the file gives the collection
\* that is in memory.
C24_FileFollowsMemory ==
    /\ (last.op \in {"add_sample", "delete_sample", "import"} /\ last.outcome = "ok") =>
          load_data(data_file, FALSE).value = samples
    /\ (last.op \in {"save", "delete"} /\ last.outcome = "ok") =>
          LoadProjects(projects_file, projects_backup,
                       [read |-> FALSE, rename |-> FALSE]).value = projects

\* a Save Project that wrote the record which an earlier, failed save had
\* left out of the file, in a session that had imported a sample
C24_Witness ==
    /\ last.op = "save"
    /\ last.outcome = "ok"
    /\ last.before # <<>>
    /\ last.file # File(JsonDump(last.before))
    /\ projects_file = File(JsonDump(projects))
    /\ \E i \in 1..Len(samples) : samples[i].id = "Sample-006"
    /\ data_file = File(JsonDump(samples))

\* C25: a Save Project that directly follows a Save Project leaves the
\* projects collection as the first save left it: the same length and the
\* same records.
C25_SecondSaveChangesNothing ==
    [][(last.op = "save" /\ last'.op = "save") => projects' = projects]_vars

\* C26: in every reachable state every index in selected_project_indices is
\* a position of the projects collection (0 <= idx < length) and occurs at
\* most once.
C26_SelectionInRange ==
    /\ \A k \in 1..Len(selected_project_indices) :
          selected_project_indices[k] \in 0..(Len(projects) - 1)
    /\ \A j, k \in 1..Len(selected_project_indices) :
          j # k => selected_project_indices[j] # selected_project_indices[k]

\* a session that started with three records or more, in which Delete
\* Selected left one record, Save Project appended another, and both are
\* selected, the new one first
C26_Witness ==
    /\ project_counter >= FirstProjectNumber + 3
    /\ Len(projects) = 2
    /\ projects[2] = project_data
    /\ selected_project_indices = <<1, 0>>

\* the digits of a number without the zeros at the low end: one form for
\* every way of writing the same number
RECURSIVE Canon(_)
Canon(x) ==
    IF \A i \in 1..Len(x.d) : x.d[i] = 0 THEN [d |-> <<0>>, e |-> 0]
    ELSE IF x.d[1] = 0 THEN Canon([d |-> Tail(x.d), e |-> x.e - 1])
    ELSE x

\* the natural number whose digits, highest first, are given
RECURSIVE Value(_)
Value(hi) == IF hi = <<>> THEN 0 ELSE Value(SubSeq(hi, 1, Len(hi) - 1)) * 10 + hi[Len(hi)]

\* a number to six significant digits, half rounded up: the digits m and
\* the place p of the first digit before the decimal point
SixDigits(x) ==
    LET d == StripLeading(x.d)
        n == Len(d)
        digit(k) == IF k \in 1..n THEN d[n + 1 - k] ELSE 0    \* k-th from the top
        m == Value([k \in 1..6 |-> digit(k)]) + (IF digit(7) >= 5 THEN 1 ELSE 0)
    IN  IF d = <<0>> THEN [m |-> 0, p |-> 0]
        ELSE IF m = 1000000 THEN [m |-> 100000, p |-> n - x.e + 1]
        ELSE [m |-> m, p |-> n - x.e]

\* C27: for every unit and weight the three outputs of calculate_volume are
\* one volume: the mm3 output is 1000 times the cm3 output, and the in3
\* output equals, to six significant digits, both the cm3 output times
\* 0.061023744 and the cubic inches the views compute from the mm3 output.
C27_OutputsAreOneVolume ==
    last.op = "convert" =>
        /\ Canon(Big(last.results.mm3)) = Canon(BigTimes(last.results.cm3, Dec(1000, 0)))
        /\ SixDigits(Big(last.results.in3)) =
              SixDigits(BigTimes(last.results.cm3, Dec(61023744, 9)))
        /\ SixDigits(Big(last.results.in3)) = SixDigits(last.views.cubic_inches)

====
